---- MODULE Spec2Model ----
(***************************************************************************)
(* Model of hltb_scraper.py: the fetcher scrape_hltb_game (retry loop,     *)
(* marker search, decoding, field stripping) and the crawl controller      *)
(* scrape_bulk (absence counter, accumulator, periodic checkpoint, final   *)
(* flush).  Either function may be the entry point of a run.               *)
(***************************************************************************)
EXTENDS Integers, Sequences, FiniteSets, TLC

\* ---------------------------------------------------------------- bounds
MaxStart == 2        \* start_id / game_id argument ranges over 1..MaxStart
MaxSave == 3         \* save_frequency ranges over 1..MaxSave
MaxCeiling == 3      \* max_consecutive_404s ranges over 0..MaxCeiling
MaxId == 5           \* ids above MaxId are not fetched (cap of the unbounded cursor)
MaxRetries == 3      \* max_retries of a direct call ranges over 0..MaxRetries
MaxCooldown == 2     \* cooldown_time of a direct call ranges over 1..MaxCooldown
MaxBody == 3         \* response bodies have at most MaxBody tokens

\* ------------------------------------------------------ program constants
DefaultMaxRetries == 3
DefaultCooldown == 60

VARIABLES
    entry,                \* the function the run was started with
    start_id, save_frequency, max_consecutive_404s,   \* arguments of scrape_bulk
    results,              \* accumulator (line 82)
    consecutive_404s,     \* line 83
    game_id,              \* line 84 / argument of scrape_hltb_game
    file,                 \* output_file: [exists, data]
    pc,                   \* control position
    max_retries, cooldown_time, attempt,              \* scrape_hltb_game frame
    game_data,            \* value returned by scrape_hltb_game
    requests,             \* history: requests.get calls of the current call
    sleeps,               \* history: time.sleep(cooldown_time) calls of the current call
    slept,                \* history: seconds slept by the current call
    outcome,              \* history: how the current call ended
    status404At,          \* history: request number that answered 404 (0: none)
    log,                  \* history: per fetched id, <<id, outcome class>>
    prev_404s,            \* history: counter before the latest iteration
    final_saved,          \* history: the write at lines 115-116 was executed
    writes,               \* history: number of times output_file was opened for writing
    text,                 \* response.text of the response being extracted (SliceSpec)
    json_str              \* line 44: the slice handed to json.loads (SliceSpec)

vars == <<entry, start_id, save_frequency, max_consecutive_404s, results,
          consecutive_404s, game_id, file, pc, max_retries, cooldown_time,
          attempt, game_data, requests, sleeps, slept, outcome, status404At,
          log, prev_404s, final_saved, writes, text, json_str>>

bulkArgs == <<entry, start_id, save_frequency, max_consecutive_404s>>
bulkState == <<results, consecutive_404s, game_id, log, prev_404s>>
callArgs == <<max_retries, cooldown_time>>
extraction == <<text, json_str>>

\* ------------------------------------------------------- response decoding
\* A response body is a sequence of tokens:
\*   "P"  the start marker  {"props":
\*   "S"  the end marker    </script>
\*   "G"  text completing a JSON container whose path props/pageProps/game/data
\*        leads to a mapping with ordinary fields and the two metadata fields
\*   "E"  the same, the mapping holding only the two metadata fields
\*   "K"  text completing a JSON container without the path
\*   "x"  any other text
Tokens == {"P", "S", "G", "E", "K", "x"}

RECURSIVE SeqsUpTo(_)
SeqsUpTo(n) ==
    IF n = 0 THEN {<<>>}
    ELSE LET shorter == SeqsUpTo(n - 1)
         IN  shorter \cup {Append(s, t) : s \in {q \in shorter : Len(q) = n - 1}, t \in Tokens}

Bodies == SeqsUpTo(MaxBody)

Min(S) == CHOOSE m \in S : \A k \in S : m <= k
Max(S) == CHOOSE m \in S : \A k \in S : m >= k
Positions(body, tok) == {i \in 1..Len(body) : body[i] = tok}

\* str.find / str.rfind: 0-based index of the first / last occurrence, or -1
Find(body, tok) == IF Positions(body, tok) = {} THEN -1 ELSE Min(Positions(body, tok)) - 1
RFind(body, tok) == IF Positions(body, tok) = {} THEN -1 ELSE Max(Positions(body, tok)) - 1

\* text[a:b] for a, b >= 0 (empty when b <= a)
Slice(body, a, b) == SubSeq(body, a + 1, b)

\* json.loads: the slice parses iff it is exactly one container
JsonLoads(str) ==
    IF Len(str) = 2 /\ str[1] = "P" /\ str[2] \in {"G", "E", "K"}
    THEN [ok |-> TRUE, doc |-> str[2]]
    ELSE [ok |-> FALSE, doc |-> "-"]

\* data["props"]["pageProps"]["game"]["data"]
HasPath(doc) == doc \in {"G", "E"}
DataKeys(doc) == IF doc = "G" THEN {"game", "individuality", "relationships"}
                 ELSE {"individuality", "relationships"}

\* lines 50-52
Strip(keys) == keys \ {"individuality", "relationships"}

\* line 44 with the indices of lines 39-40
JsonStr(body) == Slice(body, Find(body, "P"), RFind(body, "S"))

\* lines 45-54 applied to the slice
DecodeStr(str) ==
    LET data == JsonLoads(str)
    IN  IF ~data.ok THEN [kind |-> "JSONDecodeError", keys |-> {}]
        ELSE IF ~HasPath(data.doc) THEN [kind |-> "KeyError", keys |-> {}]
        ELSE [kind |-> "Record", keys |-> Strip(DataKeys(data.doc))]

\* lines 39-54 applied to the text of a response
Decode(body) ==
    LET json_data_start == Find(body, "P")
        json_data_end == RFind(body, "S")
    IN  IF json_data_start = -1 \/ json_data_end = -1
        THEN [kind |-> "NoMarkers", keys |-> {}]
        ELSE DecodeStr(JsonStr(body))

DecodeResults == {Decode(b) : b \in Bodies}

None == [tag |-> "None", game_id |-> 0, keys |-> {}]
Record(id, keys) == [tag |-> "dict", game_id |-> id, keys |-> keys]

\* truth value of the returned object as tested at line 91
Truthy(v) == v.tag = "dict" /\ v.keys # {}

NoFile == [exists |-> FALSE, data |-> <<>>]
\* mutant: the file is opened for appending
DumpAppending(list) == [exists |-> TRUE, data |-> file.data \o list]

\* lines 102-103, 115-116: open(output_file, "w") and json.dump(results, f)
Dump(list) == [exists |-> TRUE, data |-> list]

\* ------------------------------------------------------------------- Init
Init ==
    /\ entry \in {"scrape_bulk", "scrape_hltb_game"}
    /\ IF entry = "scrape_bulk"
       THEN /\ start_id \in 1..MaxStart
            /\ save_frequency \in 1..MaxSave
            /\ max_consecutive_404s \in 0..MaxCeiling
            /\ game_id = start_id
            /\ max_retries = DefaultMaxRetries
            /\ cooldown_time = DefaultCooldown
            /\ pc = "while"
       ELSE /\ start_id = 1
            /\ save_frequency = 1
            /\ max_consecutive_404s = 0
            /\ game_id \in 1..MaxStart
            /\ max_retries \in 0..MaxRetries
            /\ cooldown_time \in 1..MaxCooldown
            /\ pc = "attempt"
    /\ results = <<>>
    /\ consecutive_404s = 0
    /\ file = NoFile
    /\ attempt = 0
    /\ game_data = None
    /\ requests = 0
    /\ sleeps = 0
    /\ slept = 0
    /\ outcome = "none"
    /\ status404At = 0
    /\ log = <<>>
    /\ prev_404s = 0
    /\ final_saved = FALSE
    /\ writes = 0
    /\ text = <<>>
    /\ json_str = <<>>

\* ---------------------------------------------------- scrape_hltb_game
\* mutant: the loop condition admits the counter at the ceiling
CallFetchAtCeiling ==
    /\ pc = "while"
    /\ consecutive_404s <= max_consecutive_404s
    /\ game_id <= MaxId
    /\ pc' = "attempt"
    /\ max_retries' = DefaultMaxRetries
    /\ cooldown_time' = DefaultCooldown
    /\ attempt' = 0
    /\ game_data' = None
    /\ requests' = 0 /\ sleeps' = 0 /\ slept' = 0
    /\ outcome' = "none" /\ status404At' = 0
    /\ UNCHANGED <<extraction, bulkArgs, bulkState, file, writes, final_saved>>

\* line 89: scrape_bulk calls the fetcher with the default retry arguments
CallFetch ==
    /\ pc = "while"
    /\ consecutive_404s < max_consecutive_404s
    /\ game_id <= MaxId
    /\ pc' = "attempt"
    /\ max_retries' = DefaultMaxRetries
    /\ cooldown_time' = DefaultCooldown
    /\ attempt' = 0
    /\ game_data' = None
    /\ requests' = 0 /\ sleeps' = 0 /\ slept' = 0
    /\ outcome' = "none" /\ status404At' = 0
    /\ UNCHANGED <<extraction, bulkArgs, bulkState, file, writes, final_saved>>

\* lines 33, 56-58: the request raises ConnectionError or Timeout
AttemptFault ==
    /\ pc = "attempt"
    /\ attempt < max_retries
    /\ \E fault \in {"ConnectionError", "Timeout"} :
          /\ requests' = requests + 1
          /\ sleeps' = sleeps + 1
          /\ slept' = slept + cooldown_time
          /\ attempt' = attempt + 1
    /\ UNCHANGED <<extraction, bulkArgs, bulkState, file, writes, final_saved, callArgs, pc,
                   game_data, outcome, status404At>>

\* mutant: a 404 is handled like a transient fault (cooldown, next attempt)
Attempt404Retried ==
    /\ pc = "attempt"
    /\ attempt < max_retries
    /\ requests' = requests + 1
    /\ status404At' = requests + 1
    /\ outcome' = "NotFound"
    /\ sleeps' = sleeps + 1
    /\ slept' = slept + cooldown_time
    /\ attempt' = attempt + 1
    /\ UNCHANGED <<extraction, bulkArgs, bulkState, file, writes, final_saved, callArgs, pc, game_data>>

\* lines 33-36: the response has status 404
Attempt404 ==
    /\ pc = "attempt"
    /\ attempt < max_retries
    /\ requests' = requests + 1
    /\ status404At' = requests + 1
    /\ game_data' = None
    /\ outcome' = "NotFound"
    /\ pc' = "returned"
    /\ UNCHANGED <<extraction, bulkArgs, bulkState, file, writes, final_saved, callArgs, attempt,
                   sleeps, slept>>

\* lines 39-42: a marker is missing from the body
AttemptNoMarkers ==
    /\ pc = "attempt"
    /\ attempt < max_retries
    /\ \E d \in DecodeResults :
          /\ d.kind = "NoMarkers"
          /\ game_data' = None
          /\ outcome' = d.kind
    /\ requests' = requests + 1
    /\ pc' = "returned"
    /\ UNCHANGED <<extraction, bulkArgs, bulkState, file, writes, final_saved, callArgs, attempt,
                   sleeps, slept, status404At>>

\* lines 44-54: the slice decodes and the record is returned
AttemptRecord ==
    /\ pc = "attempt"
    /\ attempt < max_retries
    /\ \E d \in DecodeResults :
          /\ d.kind = "Record"
          /\ game_data' = Record(game_id, d.keys)
          /\ outcome' = d.kind
    /\ requests' = requests + 1
    /\ pc' = "returned"
    /\ UNCHANGED <<extraction, bulkArgs, bulkState, file, writes, final_saved, callArgs, attempt,
                   sleeps, slept, status404At>>

\* lines 45, 47: json.loads or the subscripts raise; the except clause at
\* line 56 names only ConnectionError and Timeout, so the exception leaves
\* scrape_hltb_game and, uncaught at line 89, scrape_bulk
AttemptDecodeRaises ==
    /\ pc = "attempt"
    /\ attempt < max_retries
    /\ \E d \in DecodeResults :
          /\ d.kind \in {"JSONDecodeError", "KeyError"}
          /\ outcome' = d.kind
    /\ requests' = requests + 1
    /\ pc' = "raised"
    /\ UNCHANGED <<extraction, bulkArgs, bulkState, file, writes, final_saved, callArgs, attempt,
                   sleeps, slept, status404At, game_data>>

\* mutant: no cooldown after the last failed attempt
ExhaustedNoSleep ==
    /\ pc = "attempt"
    /\ attempt >= max_retries
    /\ game_data' = None
    /\ outcome' = "Exhausted"
    /\ pc' = "returned"
    /\ UNCHANGED <<extraction, bulkArgs, bulkState, file, writes, final_saved, callArgs, attempt,
                   requests, sleeps, slept, status404At>>

\* lines 60-62: the for loop is exhausted
Exhausted ==
    /\ pc = "attempt"
    /\ attempt >= max_retries
    /\ sleeps' = sleeps + 1
    /\ slept' = slept + cooldown_time
    /\ game_data' = None
    /\ outcome' = "Exhausted"
    /\ pc' = "returned"
    /\ UNCHANGED <<extraction, bulkArgs, bulkState, file, writes, final_saved, callArgs, attempt,
                   requests, status404At>>

\* a direct call hands its value to the caller
DirectReturn ==
    /\ pc = "returned"
    /\ entry = "scrape_hltb_game"
    /\ pc' = "done"
    /\ UNCHANGED <<extraction, bulkArgs, bulkState, file, writes, final_saved, callArgs, attempt,
                   game_data, requests, sleeps, slept, outcome, status404At>>

\* ---------------------------------------------------------- scrape_bulk
\* outcome class of a finished call, in the terms of the fetcher's contract
OutcomeClass ==
    IF game_data.tag = "dict" THEN "Found"
    ELSE IF outcome = "Exhausted" THEN "Unreachable"
    ELSE "Absent"

\* mutant: an id whose retries were exhausted is fetched again
ClassifyRefetchingUnreachable ==
    /\ pc = "returned"
    /\ entry = "scrape_bulk"
    /\ IF Truthy(game_data)
       THEN /\ results' = Append(results, game_data)
            /\ consecutive_404s' = 0
       ELSE /\ results' = results
            /\ consecutive_404s' = consecutive_404s + 1
    /\ prev_404s' = consecutive_404s
    /\ log' = Append(log, <<game_id, OutcomeClass>>)
    /\ game_id' = IF outcome = "Exhausted" THEN game_id ELSE game_id + 1
    /\ pc' = "save"
    /\ UNCHANGED <<extraction, bulkArgs, file, writes, final_saved, callArgs, attempt, game_data,
                   requests, sleeps, slept, outcome, status404At>>

\* mutant: only an authoritative absence counts toward the ceiling
ClassifyIgnoringUnreachable ==
    /\ pc = "returned"
    /\ entry = "scrape_bulk"
    /\ IF Truthy(game_data)
       THEN /\ results' = Append(results, game_data)
            /\ consecutive_404s' = 0
       ELSE /\ results' = results
            /\ consecutive_404s' = IF outcome = "Exhausted" THEN consecutive_404s
                                   ELSE consecutive_404s + 1
    /\ prev_404s' = consecutive_404s
    /\ log' = Append(log, <<game_id, OutcomeClass>>)
    /\ game_id' = game_id + 1
    /\ pc' = "save"
    /\ UNCHANGED <<extraction, bulkArgs, file, writes, final_saved, callArgs, attempt, game_data,
                   requests, sleeps, slept, outcome, status404At>>

\* lines 91-98
Classify ==
    /\ pc = "returned"
    /\ entry = "scrape_bulk"
    /\ IF Truthy(game_data)
       THEN /\ results' = Append(results, game_data)
            /\ consecutive_404s' = 0
       ELSE /\ results' = results
            /\ consecutive_404s' = consecutive_404s + 1
    /\ prev_404s' = consecutive_404s
    /\ log' = Append(log, <<game_id, OutcomeClass>>)
    /\ game_id' = game_id + 1
    /\ pc' = "save"
    /\ UNCHANGED <<extraction, bulkArgs, file, writes, final_saved, callArgs, attempt, game_data,
                   requests, sleeps, slept, outcome, status404At>>

\* mutant: the checkpoint fires on every modulus boundary
CheckpointAlways ==
    /\ pc = "save"
    /\ IF game_id % save_frequency = 0
       THEN /\ file' = Dump(results)
            /\ writes' = writes + 1
       ELSE /\ file' = file
            /\ writes' = writes
    /\ pc' = "while"
    /\ UNCHANGED <<extraction, bulkArgs, bulkState, final_saved, callArgs, attempt,
                   game_data, requests, sleeps, slept, outcome, status404At>>

\* lines 101-107
Checkpoint ==
    /\ pc = "save"
    /\ IF game_id % save_frequency = 0 /\ consecutive_404s < save_frequency
       THEN /\ file' = Dump(results)
            /\ writes' = writes + 1
       ELSE /\ file' = file
            /\ writes' = writes
    /\ pc' = "while"
    /\ UNCHANGED <<extraction, bulkArgs, bulkState, final_saved, callArgs, attempt,
                   game_data, requests, sleeps, slept, outcome, status404At>>

\* line 88: the loop condition fails
LoopExit ==
    /\ pc = "while"
    /\ ~(consecutive_404s < max_consecutive_404s)
    /\ pc' = "final"
    /\ UNCHANGED <<extraction, bulkArgs, bulkState, file, writes, final_saved, callArgs, attempt,
                   game_data, requests, sleeps, slept, outcome, status404At>>

\* lines 109-117
FinalFlush ==
    /\ pc = "final"
    /\ IF consecutive_404s <= save_frequency
       THEN /\ file' = Dump(results)
            /\ writes' = writes + 1
            /\ final_saved' = TRUE
       ELSE /\ file' = file
            /\ writes' = writes
            /\ final_saved' = final_saved
    /\ pc' = "done"
    /\ UNCHANGED <<extraction, bulkArgs, bulkState, callArgs, attempt, game_data,
                   requests, sleeps, slept, outcome, status404At>>

\* ------------------------------------------- extraction of one response
\* a direct call whose first request was answered 200 with the body `text`
SliceInit ==
    /\ entry = "scrape_hltb_game"
    /\ start_id = 1 /\ save_frequency = 1 /\ max_consecutive_404s = 0
    /\ game_id \in 1..MaxStart
    /\ max_retries = DefaultMaxRetries
    /\ cooldown_time = DefaultCooldown
    /\ pc = "extract"
    /\ results = <<>> /\ consecutive_404s = 0 /\ file = NoFile
    /\ attempt = 0 /\ game_data = None
    /\ requests = 1 /\ sleeps = 0 /\ slept = 0
    /\ outcome = "none" /\ status404At = 0
    /\ log = <<>> /\ prev_404s = 0 /\ final_saved = FALSE /\ writes = 0
    /\ text \in Bodies
    /\ json_str = <<>>

\* lines 39-44
ExtractSlice ==
    /\ pc = "extract"
    /\ IF Find(text, "P") = -1 \/ RFind(text, "S") = -1
       THEN /\ game_data' = None
            /\ outcome' = "NoMarkers"
            /\ json_str' = json_str
            /\ pc' = "returned"
       ELSE /\ json_str' = JsonStr(text)
            /\ pc' = "decode"
            /\ UNCHANGED <<game_data, outcome>>
    /\ UNCHANGED <<text, bulkArgs, bulkState, file, writes, final_saved,
                   callArgs, attempt, requests, sleeps, slept, status404At>>

\* lines 45-54
DecodeSlice ==
    /\ pc = "decode"
    /\ LET d == DecodeStr(json_str)
       IN  /\ outcome' = d.kind
           /\ IF d.kind = "Record"
              THEN game_data' = Record(game_id, d.keys) /\ pc' = "returned"
              ELSE game_data' = game_data /\ pc' = "raised"
    /\ UNCHANGED <<extraction, bulkArgs, bulkState, file, writes, final_saved,
                   callArgs, attempt, requests, sleeps, slept, status404At>>

SliceNext ==
    \/ ExtractSlice
    \/ DecodeSlice

SliceSpec == SliceInit /\ [][SliceNext]_vars

Next ==
    \/ CallFetch
    \/ AttemptFault
    \/ Attempt404
    \/ AttemptNoMarkers
    \/ AttemptRecord
    \/ AttemptDecodeRaises
    \/ Exhausted
    \/ DirectReturn
    \/ Classify
    \/ Checkpoint
    \/ LoopExit
    \/ FinalFlush

Spec == Init /\ [][Next]_vars

TypeOK ==
    /\ pc \in {"while", "attempt", "returned", "save", "final", "done", "raised",
              "extract", "decode"}
    /\ consecutive_404s \in Nat
    /\ file.exists \in BOOLEAN
\* ------------------------------------------------------------------ claims
Bulk == entry = "scrape_bulk"
Direct == entry = "scrape_hltb_game"

\* ids of the log whose outcome class is Found, in fetch order
FoundIds == SelectSeq(log, LAMBDA e : e[2] = "Found")
LastOutcome == log[Len(log)][2]

\* C1: when scrape_bulk has returned, the destination file exists and holds
\* exactly the in-memory accumulator.
C1_FileEqualsAccumulatorAtReturn ==
    (Bulk /\ pc = "done" /\ max_consecutive_404s >= 1)
        => (file.exists /\ file.data = results)

\* C2: whenever the crawl loop has terminated and scrape_bulk has returned,
\* the final write of the accumulator was performed, whatever the counter
\* and save_frequency are.
C2_FinalWriteUnconditional ==
    (Bulk /\ pc = "done") => final_saved

\* C3: a response that has both markers but fails to decode makes the
\* fetcher return None (Absent) and never aborts the crawl or the call.
C3_MalformedPayloadIsAbsent ==
    (outcome \in {"JSONDecodeError", "KeyError"})
        => (pc # "raised" /\ game_data = None)

\* C4 (as claimed): when every attempt raises a connectivity or timeout
\* fault the call has slept cooldown_time exactly max_retries times.
C4_SleepsMaxRetriesTimes ==
    (outcome = "Exhausted") => (sleeps = max_retries /\ game_data = None)

\* C4 (amended): when every attempt raises a connectivity or timeout fault
\* the call makes max_retries requests, sleeps cooldown_time exactly
\* max_retries + 1 times (one per failed attempt and one after the loop)
\* and returns None.
C4_SleepsMaxRetriesPlusOneTimes ==
    (outcome = "Exhausted")
        => /\ sleeps = max_retries + 1
           /\ slept = (max_retries + 1) * cooldown_time
           /\ requests = max_retries
           /\ game_data = None
           /\ pc # "attempt"

C4_Witness ==
    /\ Direct /\ pc = "done" /\ outcome = "Exhausted"
    /\ max_retries = 2 /\ sleeps = 3 /\ cooldown_time = 2

\* C5: in a crawl from id 1 whose ids 1..save_frequency were all Found, the
\* file holds exactly save_frequency records when the loop is about to
\* fetch id save_frequency + 1.
C5_CheckpointHoldsAllN ==
    (Bulk /\ start_id = 1 /\ pc = "while" /\ game_id = save_frequency + 1
          /\ Len(results) = save_frequency)
        => (file.exists /\ Len(file.data) = save_frequency)

\* C6: the crawl stops fetching only with the consecutive-absence counter
\* at the ceiling.
C6_StopsOnlyAtCeiling ==
    (Bulk /\ pc \in {"final", "done", "raised"})
        => consecutive_404s = max_consecutive_404s

\* C7: when scrape_bulk has returned from a run with a Found id, the last
\* fetched id is the last Found id plus max_consecutive_404s, the
\* accumulator holds the records of the Found ids in order, and the file
\* holds exactly those records.
C7_StopsAfterCeilingWithFoundRecords ==
    (Bulk /\ pc = "done" /\ max_consecutive_404s >= 1 /\ Len(FoundIds) > 0)
        => /\ game_id - 1 = FoundIds[Len(FoundIds)][1] + max_consecutive_404s
           /\ Len(results) = Len(FoundIds)
           /\ \A i \in 1..Len(results) : results[i].game_id = FoundIds[i][1]
           /\ file.exists /\ file.data = results

\* C8: a 404 response ends the call at once with None: the request that
\* received it is the last request of the call, and every cooldown sleep of
\* the call belongs to a faulted attempt before it; a 404 on the first
\* attempt means one request and no sleep.
C8_NotFoundReturnsImmediately ==
    (outcome = "NotFound")
        => /\ pc # "attempt"
           /\ game_data = None
           /\ requests = status404At
           /\ sleeps = status404At - 1
           /\ attempt = status404At - 1
           /\ slept = sleeps * cooldown_time

C8_Witness ==
    /\ outcome = "NotFound" /\ status404At = 1 /\ requests = 1 /\ sleeps = 0
    /\ max_retries >= 2 /\ pc = "done"

\* C9: a call whose attempt j decodes a record after j-1 faulted attempts
\* returns the record after j requests and j-1 sleeps, and scrape_bulk does
\* not increment the counter for that id.
C9_RecordAfterFaultsNotCounted ==
    (outcome = "Record" /\ pc # "attempt")
        => /\ game_data.tag = "dict"
           /\ requests = attempt + 1
           /\ sleeps = attempt
           /\ (Bulk /\ pc = "save") => consecutive_404s # prev_404s + 1

\* C10: right after an iteration whose fetch outcome is Found the counter
\* is 0.
C10_FoundResetsCounter ==
    (Bulk /\ pc = "save" /\ LastOutcome = "Found") => consecutive_404s = 0
\* C11: in every state of a crawl the counter lies between 0 and the
\* ceiling, in particular where the checkpoint condition (pc = "save") and
\* the final-flush condition (pc = "final") are evaluated.
C11_CounterWithinCeiling ==
    Bulk => (0 <= consecutive_404s /\ consecutive_404s <= max_consecutive_404s)

C11_Witness ==
    /\ Bulk /\ pc = "final" /\ max_consecutive_404s = 2
    /\ consecutive_404s = max_consecutive_404s /\ Len(results) > 0
\* C12: scrape_bulk handles a call that returned None in one and the same
\* way whether the call ended Unreachable (retries exhausted) or Absent
\* (404, markers missing): the counter grows by exactly 1, the accumulator
\* and the file are untouched by the handling, the id advances by 1 and
\* the crawl goes on to the checkpoint test.  The step does not depend on
\* which of the two outcomes it was, so exchanging them leaves the ids
\* fetched, the accumulator and the file of a run the same.
C12_UnreachableHandledAsAbsent ==
    [][(Bulk /\ pc = "returned" /\ OutcomeClass \in {"Absent", "Unreachable"})
          => /\ consecutive_404s' = consecutive_404s + 1
             /\ results' = results
             /\ file' = file /\ writes' = writes
             /\ game_id' = game_id + 1
             /\ pc' = "save"]_vars

C12_Witness ==
    /\ Bulk /\ pc = "save" /\ LastOutcome = "Unreachable"
    /\ outcome = "Exhausted" /\ sleeps = DefaultMaxRetries + 1
    /\ consecutive_404s = prev_404s + 1 /\ prev_404s > 0
    /\ Len(results) > 0
\* C13: every id whose fetch returned a record has exactly one entry in the
\* accumulator, whatever the record holds: the accumulator is as long as
\* the number of ids whose fetch returned a record.
C13_EveryRecordAppended ==
    Bulk => Len(results) = Len(FoundIds)
\* C14: inside the crawl loop the file is written in an iteration exactly
\* when, with the id already advanced, the id is a multiple of
\* save_frequency and the counter is strictly below save_frequency; the
\* write stores the whole accumulator, and every other step of the loop
\* leaves the file as it was.
CheckpointDue == game_id % save_frequency = 0 /\ consecutive_404s < save_frequency

C14_CheckpointIffDue ==
    [][Bulk =>
         IF pc = "save"
         THEN /\ CheckpointDue => (writes' = writes + 1 /\ file' = Dump(results))
              /\ ~CheckpointDue => (writes' = writes /\ file' = file)
         ELSE pc # "final" => (writes' = writes /\ file' = file)]_vars

C14_Witness ==
    /\ Bulk /\ pc = "while" /\ start_id = 1 /\ save_frequency = 2
    /\ game_id = 4 /\ consecutive_404s = 2
    /\ writes = 1 /\ Len(results) = 1 /\ file = Dump(results)
\* C15: once written, the file is always a prefix of the accumulator; a
\* write stores the whole accumulator and between writes the file keeps
\* what the latest write stored; the file never disappears and its record
\* count never decreases, so what an interruption loses is exactly the
\* accumulator's entries beyond the file's.
IsPrefix(p, q) == Len(p) <= Len(q) /\ SubSeq(q, 1, Len(p)) = p

C16_AscendingIdsAppendOnly ==
    [][Bulk =>
         /\ \A i \in 1..Len(log') : log'[i][1] = start_id + i - 1
         /\ game_id' = start_id + Len(log')
         /\ \/ results' = results
            \/ /\ Len(results') = Len(results) + 1
               /\ SubSeq(results', 1, Len(results)) = results
               /\ results'[Len(results')].game_id = game_id
         /\ \A i \in 1..(Len(results') - 1) :
               results'[i].game_id < results'[i + 1].game_id]_vars

C16_Witness ==
    /\ Bulk /\ start_id = 2 /\ Len(log) = 4
    /\ log[1][2] = "Found" /\ log[2][2] = "Unreachable"
    /\ log[3][2] = "Found" /\ log[4][2] = "Absent"
    /\ Len(results) = 2 /\ results[1].game_id = 2 /\ results[2].game_id = 4
    /\ game_id = 6
\* C17: a call makes at most max_retries requests, and when scrape_bulk
\* has returned it has fetched exactly max_consecutive_404s ids after the
\* last Found id (after start_id - 1 when no id was Found).
LastFoundOrBefore ==
    IF Len(FoundIds) = 0 THEN start_id - 1 ELSE FoundIds[Len(FoundIds)][1]

C17_StopsCeilingIdsPastLastFound ==
    /\ requests <= max_retries
    /\ (Bulk /\ pc = "done")
          => game_id - 1 = LastFoundOrBefore + max_consecutive_404s
\* C18: for a body that contains the start marker, the slice handed to the
\* decoder ends at the nearest end marker that follows the start marker,
\* i.e. it is the slice a forward search from the start marker gives.
ForwardEnd(body) ==
    LET following == {i \in Positions(body, "S") : i - 1 >= Find(body, "P")}
    IN  IF following = {} THEN -1 ELSE Min(following) - 1

C18_SliceEndsAtNearestFollowingMarker ==
    (pc \in {"decode", "returned", "raised"} /\ Find(text, "P") # -1
        /\ outcome # "NoMarkers")
        => /\ ForwardEnd(text) # -1
           /\ json_str = Slice(text, Find(text, "P"), ForwardEnd(text))
====
